---- MODULE Spec2Model ----
(***************************************************************************)
(* A model of the file-converter bot: the per-user session dictionary      *)
(* (context.user_data), the scratch directory temp/, the capability table  *)
(* (CONVERSION_MATRIX), the dispatcher FileConverter.convert_file and the  *)
(* update handlers of main.py.                                             *)
(*                                                                         *)
(* Representation of strings.  A string that the code cuts at '_' or at    *)
(* the extension dot is a sequence of its pieces: callback data            *)
(* "convert_pdf_docx_f1" is <<"convert","pdf","docx","f1">>, so            *)
(* str.split('_') is the sequence itself and an identifier that contains   *)
(* '_' has more than one piece; the extension ".pdf" is <<".","pdf">>, so  *)
(* ext[1:] is its second piece.  Every other string is a TLA+ string.      *)
(***************************************************************************)
EXTENDS Integers, Sequences, FiniteSets, TLC

VARIABLES
    MOVIEPY_AVAILABLE,  \* converters.py:13-18, fixed at import time
    user_data,          \* context.user_data of every user
    temp,               \* the files that exist in the scratch directory temp/
    ev,                 \* the update whose handler ran last, NoEvent when idle
    msgs,               \* the messages that handler sent or edited, in order
    request,            \* the conversion request that handler formed: <<>> or <<[source, target, file_id]>>
    calls,              \* the convert_file calls that handler made, in order
    sent,               \* the documents that handler delivered, in order
    raised,             \* whether an exception left that handler
    nChanges,           \* the number of handler runs so far that changed a session or temp/
    queue,              \* the updates fetched from the transport and not yet dispatched
    loop,               \* what the event loop's thread is running: nothing, or a handler at a step
    screen              \* the media messages in the chat whose keyboards offer conversions

vars == <<MOVIEPY_AVAILABLE, user_data, temp, ev, msgs, request, calls, sent, raised, nChanges,
          queue, loop, screen>>

\* The number of handler runs that change a session or the scratch directory in
\* one run of the model; runs that change neither are not limited.
MaxChanges == 3

\* Python's None, and a dictionary key that is absent.
None == "None"

\* The users the bot knows, and the one whose conversation Spec follows.
Users == {"u1", "u2"}

Actors == {"u1"}

\* File identifiers the transport supplies; the second one is "f2_x".
FileIds == {<<"f1">>, <<"f2", "x">>}

---------------------------------------------------------------------------
(* utils/converters.py: the capability table                               *)

Dot(name) == <<".", name>>

BaseSourceNames == {"pdf", "docx", "txt", "jpg", "jpeg", "png", "webp", "mp3", "wav", "ogg"}

base_matrix(name) ==
    CASE name = "pdf"  -> <<"docx", "txt">>
      [] name = "docx" -> <<"pdf", "txt">>
      [] name = "txt"  -> <<"docx">>
      [] name = "jpg"  -> <<"png", "webp">>
      [] name = "jpeg" -> <<"png", "webp">>
      [] name = "png"  -> <<"jpg", "webp">>
      [] name = "webp" -> <<"jpg", "png">>
      [] name = "mp3"  -> <<"wav", "ogg">>
      [] name = "wav"  -> <<"mp3", "ogg">>
      [] name = "ogg"  -> <<"mp3", "wav">>

\* The keys of the matrix, as dotted extensions.
MatrixKeys(avail) ==
    {Dot(n) : n \in BaseSourceNames} \cup (IF avail THEN {Dot("mp4")} ELSE {})

get_conversion_matrix(avail) ==
    [k \in MatrixKeys(avail) |-> IF k = Dot("mp4") THEN <<"mp3">> ELSE base_matrix(k[2])]

\* str.lower() on the pieces of the model's strings.
LowerStr(s) ==
    CASE s = "PDF"  -> "pdf"
      [] s = "Docx" -> "docx"
      [] s = "PNG"  -> "png"
      [] s = "JPG"  -> "jpg"
      [] s = "Mp4"  -> "mp4"
      [] OTHER      -> s

Lower(ext) == [i \in DOMAIN ext |-> LowerStr(ext[i])]

CONVERSION_MATRIX == get_conversion_matrix(MOVIEPY_AVAILABLE)

\* A lookup that does not lower-case its argument; C11 distinguishes it from
\* get_supported_conversions.
get_supported_conversions_exact(file_extension) ==
    IF file_extension \in DOMAIN CONVERSION_MATRIX
    THEN CONVERSION_MATRIX[file_extension]
    ELSE <<>>

get_supported_conversions(file_extension) ==
    IF Lower(file_extension) \in DOMAIN CONVERSION_MATRIX
    THEN CONVERSION_MATRIX[Lower(file_extension)]
    ELSE <<>>

Range(s) == {s[i] : i \in DOMAIN s}

---------------------------------------------------------------------------
(* Paths of the scratch directory                                          *)

\* f"temp/input_{file_id}.{source_format}"
InputPath(file_id, source_format) ==
    [base |-> <<"input", file_id>>, suffix |-> "", ext |-> source_format]

\* os.path.join(temp_dir, f"{base_name}_converted.{target_format}") with
\* base_name = os.path.splitext(os.path.basename(input_path))[0]
OutputPath(input_path, target_format) ==
    [base |-> input_path.base, suffix |-> input_path.suffix \o "_converted", ext |-> target_format]

\* output_path.replace('.txt', '_temp.docx')
TempDocx(output_path) ==
    IF output_path.ext = "txt"
    THEN [base |-> output_path.base, suffix |-> output_path.suffix \o "_temp", ext |-> "docx"]
    ELSE output_path

\* Python's None where a path is expected.
NoPath == [base |-> <<>>, suffix |-> "", ext |-> None]

cleanup_temp_files(disk, file_paths) == disk \ Range(file_paths)

---------------------------------------------------------------------------
(* utils/converters.py: FileConverter                                      *)

\* Where an external library call fails while a routine runs.
\*   none           no failure
\*   before_write   it raises before the routine's first file is created
\*   partial_write  it raises after that file was created, half written
\*   stage2         (pdf -> txt) the text extraction from the intermediate docx raises
\*   stage2_partial (pdf -> txt) writing the txt output raises, the file half written
\*   no_audio       (mp4 -> mp3) the clip has no audio track
FailPoints == {"none", "before_write", "partial_write", "stage2", "stage2_partial", "no_audio"}

\* What a routine returns: the value, the directory afterwards, and whether an
\* external library was called.
Ret(value, disk, external) == [ret |-> value, disk |-> disk, external |-> external]

\* "return output_path if os.path.exists(output_path) else None"
IfExists(disk, output_path) == IF output_path \in disk THEN output_path ELSE NoPath

\* A routine that returns the path of a half-written output as if it had
\* succeeded; C22 distinguishes it from WriteOne.
WriteOne_garbled(disk, output_path, fp) ==
    CASE fp = "none"          -> Ret(IfExists(disk \cup {output_path}, output_path), disk \cup {output_path}, TRUE)
      [] fp = "before_write"  -> Ret(NoPath, disk, TRUE)
      [] fp = "partial_write" -> Ret(output_path, disk \cup {output_path}, TRUE)

\* A routine that calls the library and writes output_path in one step.
WriteOne(disk, output_path, fp) ==
    CASE fp = "none"          -> Ret(IfExists(disk \cup {output_path}, output_path), disk \cup {output_path}, TRUE)
      [] fp = "before_write"  -> Ret(NoPath, disk, TRUE)
      [] fp = "partial_write" -> Ret(NoPath, disk \cup {output_path}, TRUE)

_convert_pdf(disk, input_path, output_path, target_format, fp) ==
    IF target_format = "docx" THEN WriteOne(disk, output_path, fp)
    ELSE IF target_format = "txt" THEN
        LET temp_docx == TempDocx(output_path) IN
        CASE fp = "none"           -> Ret(IfExists((disk \cup {output_path}) \ {temp_docx}, output_path),
                                          (disk \cup {output_path}) \ {temp_docx}, TRUE)
          [] fp = "before_write"   -> Ret(NoPath, disk, TRUE)
          [] fp = "partial_write"  -> Ret(NoPath, disk \cup {temp_docx}, TRUE)
          [] fp = "stage2"         -> Ret(NoPath, disk \cup {temp_docx}, TRUE)
          [] fp = "stage2_partial" -> Ret(NoPath, disk \cup {temp_docx, output_path}, TRUE)
    ELSE Ret(IfExists(disk, output_path), disk, FALSE)

_convert_docx(disk, input_path, output_path, target_format, fp) ==
    IF target_format \in {"txt", "pdf"} THEN WriteOne(disk, output_path, fp)
    ELSE Ret(IfExists(disk, output_path), disk, FALSE)

_convert_txt_to_docx(disk, input_path, output_path, fp) == WriteOne(disk, output_path, fp)

_convert_image(disk, input_path, output_path, target_format, fp) == WriteOne(disk, output_path, fp)

\* Pillow image modes the routine tells apart; RGBA, LA and P can carry
\* transparency, RGB and L cannot.
ImageModes == {"RGB", "L", "RGBA", "LA", "P"}

\* An opened image, reduced to its mode and one pixel: its colour and whether
\* the pixel is opaque.  Modes without transparency have opaque pixels only.
Images ==
    {[mode |-> m, colour |-> c, opaque |-> o] :
        m \in ImageModes, c \in {"black", "red"}, o \in BOOLEAN}
    \ {[mode |-> m, colour |-> c, opaque |-> FALSE] : m \in {"RGB", "L"}, c \in {"black", "red"}}

\* Image.paste(img, mask=mask) onto a one-colour background: with a mask the
\* background shows through where the mask is transparent; without one every
\* pixel of the background is overwritten and the pasted image's alpha band
\* plays no part.
paste(background, img, mask) ==
    IF mask = "alpha" /\ ~img.opaque THEN background ELSE img.colour

\* The image _convert_image hands to img.save, and the mask it pasted with.
image_to_save(img, target_format) ==
    IF LowerStr(target_format) \in {"jpg", "jpeg"} /\ img.mode \in {"RGBA", "LA", "P"}
    THEN LET img1 == IF img.mode = "P" THEN [img EXCEPT !.mode = "RGBA"] ELSE img
             mask == IF img1.mode = "RGBA" THEN "alpha" ELSE None
         IN  [mode |-> "RGB", colour |-> paste("white", img1, mask), opaque |-> TRUE,
              flattened |-> TRUE, mask |-> mask]
    ELSE [mode |-> img.mode, colour |-> img.colour, opaque |-> img.opaque,
          flattened |-> FALSE, mask |-> None]

_convert_audio(disk, input_path, output_path, target_format, fp) ==
    IF target_format \in {"mp3", "wav", "ogg"} THEN WriteOne(disk, output_path, fp)
    ELSE Ret(IfExists(disk, output_path), disk, TRUE)

\* A routine that has begun writing the output before it finds the clip has no
\* audio track; C18 distinguishes it from _convert_video_to_audio.
_convert_video_to_audio_written(disk, input_path, output_path, fp) ==
    IF ~MOVIEPY_AVAILABLE THEN Ret(NoPath, disk, FALSE)
    ELSE IF fp = "no_audio" THEN Ret(NoPath, disk \cup {output_path}, TRUE)
    ELSE WriteOne(disk, output_path, fp)

_convert_video_to_audio(disk, input_path, output_path, fp) ==
    IF ~MOVIEPY_AVAILABLE THEN Ret(NoPath, disk, FALSE)
    ELSE IF fp = "no_audio" THEN Ret(NoPath, disk, TRUE)
    ELSE WriteOne(disk, output_path, fp)

\* A routing chain whose image branch leaves out jpeg; C10 distinguishes it from route.
route_without_jpeg(source_format, target_format) ==
    IF source_format \in {"pdf"} /\ target_format \in {"docx", "txt"} THEN "_convert_pdf"
    ELSE IF source_format \in {"docx"} /\ target_format \in {"pdf", "txt"} THEN "_convert_docx"
    ELSE IF source_format \in {"txt"} /\ target_format \in {"docx"} THEN "_convert_txt_to_docx"
    ELSE IF source_format \in {"jpg", "png", "webp"} /\ target_format \in {"jpg", "png", "webp"}
        THEN "_convert_image"
    ELSE IF source_format \in {"mp3", "wav", "ogg"} /\ target_format \in {"mp3", "wav", "ogg"}
        THEN "_convert_audio"
    ELSE IF source_format = "mp4" /\ target_format = "mp3" THEN "_convert_video_to_audio"
    ELSE "unsupported"

\* The if/elif chain of convert_file: the routine a pair is routed to.
route(source_format, target_format) ==
    IF source_format \in {"pdf"} /\ target_format \in {"docx", "txt"} THEN "_convert_pdf"
    ELSE IF source_format \in {"docx"} /\ target_format \in {"pdf", "txt"} THEN "_convert_docx"
    ELSE IF source_format \in {"txt"} /\ target_format \in {"docx"} THEN "_convert_txt_to_docx"
    ELSE IF source_format \in {"jpg", "jpeg", "png", "webp"} /\ target_format \in {"jpg", "png", "webp"}
        THEN "_convert_image"
    ELSE IF source_format \in {"mp3", "wav", "ogg"} /\ target_format \in {"mp3", "wav", "ogg"}
        THEN "_convert_audio"
    ELSE IF source_format = "mp4" /\ target_format = "mp3" THEN "_convert_video_to_audio"
    ELSE "unsupported"

\* The failures the routine of a pair can meet.
FailPointsOf(source_format, target_format) ==
    LET r == route(source_format, target_format) IN
    CASE r = "unsupported" -> {"none"}
      [] r = "_convert_pdf" /\ target_format = "txt" ->
            {"none", "before_write", "partial_write", "stage2", "stage2_partial"}
      [] r = "_convert_video_to_audio" ->
            IF MOVIEPY_AVAILABLE THEN {"none", "before_write", "partial_write", "no_audio"} ELSE {"none"}
      [] OTHER -> {"none", "before_write", "partial_write"}

\* One call of convert_file: [route, ret, disk, external].
convert_file(disk, input_path, source_format, target_format, fp) ==
    LET output_path == OutputPath(input_path, target_format)
        r == route(source_format, target_format)
        res == CASE r = "_convert_pdf"  -> _convert_pdf(disk, input_path, output_path, target_format, fp)
                 [] r = "_convert_docx" -> _convert_docx(disk, input_path, output_path, target_format, fp)
                 [] r = "_convert_txt_to_docx" -> _convert_txt_to_docx(disk, input_path, output_path, fp)
                 [] r = "_convert_image" -> _convert_image(disk, input_path, output_path, target_format, fp)
                 [] r = "_convert_audio" -> _convert_audio(disk, input_path, output_path, target_format, fp)
                 [] r = "_convert_video_to_audio" -> _convert_video_to_audio(disk, input_path, output_path, fp)
                 [] OTHER -> Ret(NoPath, disk, FALSE)
    IN  [route |-> r, ret |-> res.ret, disk |-> res.disk, external |-> res.external,
         input |-> input_path, source |-> source_format, target |-> target_format]

---------------------------------------------------------------------------
(* Strings cut into pieces                                                 *)

RECURSIVE Join(_)
\* "_".join(pieces)
Join(pieces) ==
    IF Len(pieces) = 0 THEN ""
    ELSE IF Len(pieces) = 1 THEN pieces[1]
    ELSE pieces[1] \o "_" \o Join(Tail(pieces))

RECURSIVE Concat(_)
\* "".join(pieces)
Concat(pieces) == IF Len(pieces) = 0 THEN "" ELSE pieces[1] \o Concat(Tail(pieces))

\* data.startswith(word + "_")
StartsWith(data, word) == Len(data) >= 2 /\ data[1] = word

RECURSIVE Replace(_, _)
\* data.replace(word + "_", ""): every piece equal to word that a '_' follows goes.
\* (No piece of the model's strings ends in word without being word.)
Replace(data, word) ==
    IF Len(data) <= 1 THEN data
    ELSE IF data[1] = word THEN Replace(Tail(data), word)
    ELSE <<data[1]>> \o Replace(Tail(data), word)

\* os.path.splitext(file_name)[1]
SplitExt(file_name) ==
    IF Len(file_name) >= 3 /\ file_name[Len(file_name) - 1] = "."
    THEN <<".", file_name[Len(file_name)]>>
    ELSE <<>>

\* word in mime_type
Contains(mime_type, word) == \E i \in DOMAIN mime_type : mime_type[i] = word

\* A truth test that None and the empty string pass; C34 distinguishes it from
\* Truthy.
Truthy_always(x) == TRUE

\* Python truthiness of a stored string
Truthy(x) == x # None /\ x # ""

---------------------------------------------------------------------------
(* utils/languages.py                                                      *)

LANGUAGES == {"uz", "en", "ru"}

\* The language get_text renders in.
get_text(user_lang) == IF user_lang \in LANGUAGES THEN user_lang ELSE "en"

get_user_language(ud) == ud.language

\* A setter that stores nothing; C24 distinguishes it from set_user_language.
set_user_language_ignored(ud, language) == ud

\* A setter without the membership test; C28 distinguishes it from
\* set_user_language.
set_user_language_any(ud, language) == [ud EXCEPT !.language = language]

set_user_language(ud, language) ==
    IF language \in LANGUAGES THEN [ud EXCEPT !.language = language] ELSE ud

---------------------------------------------------------------------------
(* The session dictionary and what a handler produces                      *)

\* context.user_data with no key set; user_data.clear() leaves it so.
EmptySession ==
    [language |-> None, language_ever_set |-> None, selected_file_type |-> None,
     target_format |-> None, document_file_id |-> None, document_file_name |-> None,
     photo_file_id |-> None, audio_file_id |-> None, audio_source_format |-> None,
     video_file_id |-> None]

\* An outbound message: reply_text or edit_message_text, its text key, the
\* language it is rendered in ("-" for a literal text) and its buttons.
Msg(op, key, lang, buttons) == [op |-> op, key |-> key, lang |-> lang, buttons |-> buttons]

\* A handler run that makes each of its convert_file calls a second time; C25
\* distinguishes it from Res.
Res_retried(ud, disk, m, c, s, r) ==
    [ud |-> ud, disk |-> disk, msgs |-> m, calls |-> c \o c, sent |-> s, raised |-> r, req |-> <<>>]

\* What one handler run leaves: the session, the directory, the messages, the
\* convert_file calls, the documents sent, whether an exception left it, and the
\* conversion request it formed (none, unless Requested says otherwise).
Res(ud, disk, m, c, s, r) ==
    [ud |-> ud, disk |-> disk, msgs |-> m, calls |-> c, sent |-> s, raised |-> r, req |-> <<>>]

\* A handler run that formed the request (source_format, target_format, file_id).
Requested(res, source_format, target_format, file_id) ==
    [res EXCEPT !.req = <<[source |-> source_format, target |-> target_format, file_id |-> file_id]>>]

\* A clear that keeps the selected source type; C6 distinguishes it from clear.
clear_keep_selection(ud) == [EmptySession EXCEPT !.selected_file_type = ud.selected_file_type]

\* context.user_data.clear()
clear(ud) == EmptySession

\* The environment's part in one conversion request:
\*   t   the transport call that raises (none, converting_msg, get_file, download,
\*       failed_msg, send_document, completed_msg)
\*   fp  the failure the conversion routine meets
\*   e   how many of the error messages sent from except blocks raise in turn
NoFail == [t |-> "none", fp |-> "none", e |-> 0]

BACK == <<"back", "menu">>

MainMenuKeyboard ==
    << <<"menu", "documents">>, <<"menu", "images">>, <<"menu", "audio">>,
       <<"menu", "video">>, <<"menu", "direct">> >>

LanguageKeyboard == << <<"lang", "uz">>, <<"lang", "en">>, <<"lang", "ru">> >>

---------------------------------------------------------------------------
(* main.py: commands and menus                                             *)

show_language_selection(op) == Msg(op, "select_language", "en", LanguageKeyboard)

start(ud, disk) ==
    LET user_lang == get_user_language(ud)
        language_ever_set == IF ud.language_ever_set = None THEN FALSE ELSE ud.language_ever_set
    IN  IF ~language_ever_set
        THEN Res(ud, disk, <<show_language_selection("reply")>>, <<>>, <<>>, FALSE)
        ELSE LET lang == IF ~Truthy(user_lang) \/ user_lang \notin LANGUAGES THEN "en" ELSE user_lang
             IN  Res(ud, disk, <<Msg("reply", "welcome", get_text(lang), MainMenuKeyboard)>>,
                     <<>>, <<>>, FALSE)

help_command(ud, disk) ==
    Res(ud, disk, <<Msg("reply", "help", get_text(get_user_language(ud)), <<BACK>>)>>, <<>>, <<>>, FALSE)

language_command(ud, disk) ==
    Res(ud, disk, <<show_language_selection("reply")>>, <<>>, <<>>, FALSE)

\* A back press that lands on the language prompt; C23 distinguishes it from
\* start_menu.
start_menu_language(ud) == show_language_selection("edit")

\* Called from callbacks only, so the menu is an edit of the pressed message.
start_menu(ud) == Msg("edit", "welcome", get_text(get_user_language(ud)), MainMenuKeyboard)

handle_file_type_selection(ud, disk, data) ==
    LET file_type == Join(Replace(data, "type"))
        ud1 == [ud EXCEPT !.selected_file_type = file_type]
        supported_formats == get_supported_conversions(Dot(file_type))
        keyboard == [i \in 1..Len(supported_formats) |-> <<"target", supported_formats[i]>>] \o <<BACK>>
    IN  IF supported_formats = <<>>
        THEN Res(ud1, disk, <<Msg("edit", "no_conversions", "-", <<>>)>>, <<>>, <<>>, FALSE)
        ELSE Res(ud1, disk, <<Msg("edit", "choose_target", "-", keyboard)>>, <<>>, <<>>, FALSE)

TypeKeyboard(names) == [i \in 1..Len(names) |-> <<"type", names[i]>>] \o <<BACK>>

handle_menu(ud, disk, data) ==
    LET user_lang == get_user_language(ud)
        edit(key, keyboard) == Res(ud, disk, <<Msg("edit", key, get_text(user_lang), keyboard)>>, <<>>, <<>>, FALSE)
    IN  IF StartsWith(data, "lang") THEN
            LET ud1 == set_user_language(ud, Join(Replace(data, "lang")))
            IN  Res(ud1, disk, <<start_menu(ud1)>>, <<>>, <<>>, FALSE)
        ELSE IF data = <<"menu", "documents">> THEN edit("document_conversion", TypeKeyboard(<<"pdf", "docx", "txt">>))
        ELSE IF data = <<"menu", "images">> THEN edit("image_conversion", TypeKeyboard(<<"jpg", "png", "webp">>))
        ELSE IF data = <<"menu", "audio">> THEN edit("audio_conversion", TypeKeyboard(<<"mp3", "wav", "ogg">>))
        ELSE IF data = <<"menu", "video">> THEN edit("video_conversion", TypeKeyboard(<<"mp4">>))
        ELSE IF data = <<"menu", "direct">> THEN edit("direct_upload", <<BACK>>)
        ELSE IF data = BACK THEN Res(ud, disk, <<start_menu(ud)>>, <<>>, <<>>, FALSE)
        ELSE handle_file_type_selection(ud, disk, data)

---------------------------------------------------------------------------
(* main.py: the conversion request                                         *)

\* A document handed to send_document: the file read and the name it is sent under.
Sent(path, target_format) == [path |-> path, filename |-> "converted." \o target_format]

\* The except block of handle_conversion (lines 406-419): the error text, then the
\* cleanup of the paths that were bound when the exception was raised.  When the
\* error text cannot be sent the exception leaves the handler before the cleanup.
conversion_except(ud, disk, m, c, s, bound, oc) ==
    IF oc.e >= 1 THEN Res(ud, disk, m, c, s, TRUE)
    ELSE Res(ud, cleanup_temp_files(disk, bound),
             m \o <<Msg("edit", "conversion_error", "-", <<>>)>>, c, s, FALSE)

\* Lines 367-419 of handle_conversion, for a request (source, target, file_id).
handle_conversion_request(ud, disk, source_format, target_format, file_id, oc) ==
    LET user_lang == get_user_language(ud)
        m0 == <<Msg("edit", "converting", get_text(user_lang), <<>>)>>
        input_path == InputPath(file_id, source_format)
        disk1 == disk \cup {input_path}
        c == convert_file(disk1, input_path, source_format, target_format, oc.fp)
        output_path == c.ret
        delivered == <<Sent(output_path, target_format)>>
        m1 == m0 \o <<Msg("edit", "conversion_completed", get_text(user_lang), <<>>)>>
        res ==
            IF oc.t = "converting_msg" THEN conversion_except(ud, disk, <<>>, <<>>, <<>>, <<>>, oc)
            ELSE IF oc.t = "get_file" THEN conversion_except(ud, disk, m0, <<>>, <<>>, <<>>, oc)
            ELSE IF oc.t = "download" THEN conversion_except(ud, disk1, m0, <<>>, <<>>, <<input_path>>, oc)
            ELSE IF output_path = NoPath \/ output_path \notin c.disk THEN
                IF oc.t = "failed_msg"
                THEN conversion_except(ud, c.disk, m0, <<c>>, <<>>, <<input_path>>, oc)
                ELSE Res(ud, c.disk, m0 \o <<Msg("edit", "conversion_failed", get_text(user_lang), <<>>)>>,
                         <<c>>, <<>>, FALSE)
            ELSE IF oc.t = "send_document"
                THEN conversion_except(ud, c.disk, m0, <<c>>, <<>>, <<input_path, output_path>>, oc)
            ELSE IF oc.t = "completed_msg"
                THEN conversion_except(ud, c.disk, m0, <<c>>, delivered, <<input_path, output_path>>, oc)
            ELSE Res(clear(ud), cleanup_temp_files(c.disk, <<input_path, output_path>>),
                     m1, <<c>>, delivered, FALSE)
    IN  Requested(res, source_format, target_format, file_id)

handle_conversion(ud, disk, data, oc) ==
    IF StartsWith(data, "target") THEN
        LET target_format == Join(Replace(data, "target"))
            source_format == ud.selected_file_type
        IN  IF ~Truthy(source_format)
            THEN Res(ud, disk, <<Msg("edit", "please_start_over", "-", <<>>)>>, <<>>, <<>>, FALSE)
            ELSE Res([ud EXCEPT !.target_format = target_format], disk,
                     <<Msg("edit", "ready_to_convert", "-", <<BACK>>)>>, <<>>, <<>>, FALSE)
    ELSE IF Len(data) = 3 /\ data[1] = "convert" /\ data[2] = "photo" THEN
        IF ~Truthy(ud.photo_file_id)
        THEN Res(ud, disk, <<Msg("edit", "photo_not_found", get_text(get_user_language(ud)), <<>>)>>,
                 <<>>, <<>>, FALSE)
        ELSE handle_conversion_request(ud, disk, "jpg", data[3], ud.photo_file_id, oc)
    ELSE IF Len(data) = 3 /\ data[1] = "convert" /\ data[2] = "audio" THEN
        IF ~Truthy(ud.audio_file_id)
        THEN Res(ud, disk, <<Msg("edit", "start_over", get_text(get_user_language(ud)), <<>>)>>,
                 <<>>, <<>>, FALSE)
        ELSE handle_conversion_request(ud, disk,
                 IF ud.audio_source_format = None THEN "mp3" ELSE ud.audio_source_format,
                 data[3], ud.audio_file_id, oc)
    ELSE IF Len(data) = 3 /\ data[1] = "convert" /\ data[2] = "video" THEN
        IF ~Truthy(ud.video_file_id)
        THEN Res(ud, disk, <<Msg("edit", "start_over", get_text(get_user_language(ud)), <<>>)>>,
                 <<>>, <<>>, FALSE)
        ELSE handle_conversion_request(ud, disk, "mp4", data[3], ud.video_file_id, oc)
    ELSE IF Len(data) = 4 /\ data[1] = "convert" THEN
        handle_conversion_request(ud, disk, data[2], data[3], data[4], oc)
    ELSE handle_menu(ud, disk, data)

\* The except block of convert_file_now (lines 461-473).
convert_file_now_except(ud, disk, m, c, s, bound, oc) ==
    IF oc.e >= 1 THEN Res(ud, disk, m, c, s, TRUE)
    ELSE Res(ud, cleanup_temp_files(disk, bound),
             m \o <<Msg("reply", "conversion_failed", get_text(get_user_language(ud)), <<>>)>>, c, s, FALSE)

convert_file_now(ud, disk, source_format, target_format, file_id, oc) ==
    LET user_lang == get_user_language(ud)
        m0 == <<Msg("reply", "converting", get_text(user_lang), <<>>)>>
        input_path == InputPath(file_id, source_format)
        disk1 == disk \cup {input_path}
        c == convert_file(disk1, input_path, source_format, target_format, oc.fp)
        output_path == c.ret
        delivered == <<Sent(output_path, target_format)>>
        m1 == m0 \o <<Msg("edit", "conversion_completed", get_text(user_lang), <<>>)>>
        res ==
            IF oc.t = "converting_msg" THEN convert_file_now_except(ud, disk, <<>>, <<>>, <<>>, <<>>, oc)
            ELSE IF oc.t = "get_file" THEN convert_file_now_except(ud, disk, m0, <<>>, <<>>, <<>>, oc)
            ELSE IF oc.t = "download" THEN convert_file_now_except(ud, disk1, m0, <<>>, <<>>, <<input_path>>, oc)
            ELSE IF output_path = NoPath \/ output_path \notin c.disk THEN
                IF oc.t = "failed_msg"
                THEN convert_file_now_except(ud, c.disk, m0, <<c>>, <<>>, <<input_path>>, oc)
                ELSE Res(ud, c.disk, m0 \o <<Msg("edit", "conversion_failed", get_text(user_lang), <<>>)>>,
                         <<c>>, <<>>, FALSE)
            ELSE IF oc.t = "send_document"
                THEN convert_file_now_except(ud, c.disk, m0, <<c>>, <<>>, <<input_path, output_path>>, oc)
            ELSE IF oc.t = "completed_msg"
                THEN convert_file_now_except(ud, c.disk, m0, <<c>>, delivered, <<input_path, output_path>>, oc)
            ELSE Res(clear(ud), cleanup_temp_files(c.disk, <<input_path, output_path>>),
                     m1, <<c>>, delivered, FALSE)
    IN  Requested(res, source_format, target_format, file_id)

---------------------------------------------------------------------------
(* main.py: uploads                                                        *)

\* The except block of an upload handler (lines 161-164, 506-509, 563-566,
\* 602-605): it catches what convert_file_now let through and replies
\* error_occurred; when that reply raises too, the exception leaves the handler.
upload_except(res, oc) ==
    IF ~res.raised THEN res
    ELSE IF oc.e >= 2 THEN res
    ELSE [res EXCEPT !.msgs = @ \o <<Msg("reply", "error_occurred", get_text(get_user_language(res.ud)), <<>>)>>,
                     !.raised = FALSE]

\* document: [file_id, file_name], file_name <<>> when the transport gives none.
handle_document(ud, disk, document, oc) ==
    LET user_lang == get_user_language(ud)
        file_name == IF document.file_name = <<>> THEN <<"unknown">> ELSE document.file_name
        file_extension == Lower(SplitExt(file_name))
        selected_file_type == ud.selected_file_type
        target_format == ud.target_format
        supported_formats == get_supported_conversions(file_extension)
        keyboard == [i \in 1..Len(supported_formats) |->
                        <<"convert", file_extension[2], supported_formats[i]>> \o document.file_id]
                    \o <<BACK>>
    IN  IF file_extension = <<>>
        THEN Res(ud, disk, <<Msg("reply", "file_type_error", get_text(user_lang), <<>>)>>, <<>>, <<>>, FALSE)
        ELSE IF Truthy(selected_file_type) /\ Truthy(target_format) /\ file_extension[2] = selected_file_type
        THEN upload_except(
                 convert_file_now([ud EXCEPT !.document_file_id = Join(document.file_id),
                                             !.document_file_name = Concat(file_name)],
                                  disk, file_extension[2], target_format, Join(document.file_id), oc),
                 oc)
        ELSE IF supported_formats = <<>>
        THEN Res(ud, disk, <<Msg("reply", "unsupported_format", get_text(user_lang), <<>>)>>, <<>>, <<>>, FALSE)
        ELSE Res(ud, disk, <<Msg("reply", "file_received", get_text(user_lang), keyboard)>>, <<>>, <<>>, FALSE)

\* photo: [file_id], the highest resolution of the photo sizes.
handle_photo(ud, disk, photo, oc) ==
    LET selected_file_type == ud.selected_file_type
        target_format == ud.target_format
        user_lang == get_user_language(ud)
        keyboard == << <<"convert", "photo", "png">>, <<"convert", "photo", "webp">>, BACK >>
    IN  IF Truthy(selected_file_type) /\ Truthy(target_format)
           /\ selected_file_type \in {"jpg", "jpeg", "png", "webp"}
        THEN upload_except(convert_file_now(ud, disk, "jpg", target_format, Join(photo.file_id), oc), oc)
        ELSE Res([ud EXCEPT !.photo_file_id = Join(photo.file_id)], disk,
                 <<Msg("reply", "photo_received", get_text(user_lang), keyboard)>>, <<>>, <<>>, FALSE)

\* audio: [file_id, mime_type], message.audio or message.voice; mime_type <<>> when unset.
handle_audio(ud, disk, audio, oc) ==
    LET user_lang == get_user_language(ud)
        selected_file_type == ud.selected_file_type
        target_format == ud.target_format
        source_format == IF audio.mime_type = <<>> THEN "mp3"
                         ELSE IF Contains(audio.mime_type, "wav") THEN "wav"
                         ELSE IF Contains(audio.mime_type, "ogg") THEN "ogg"
                         ELSE "mp3"
        supported_formats == get_supported_conversions(Dot(source_format))
        keyboard == [i \in 1..Len(supported_formats) |-> <<"convert", "audio", supported_formats[i]>>]
                    \o <<BACK>>
    IN  IF Truthy(selected_file_type) /\ Truthy(target_format)
           /\ selected_file_type \in {"mp3", "wav", "ogg"}
        THEN upload_except(
                 convert_file_now(ud, disk, selected_file_type, target_format, Join(audio.file_id), oc), oc)
        ELSE IF supported_formats = <<>>
        THEN Res(ud, disk, <<Msg("reply", "unsupported_format", get_text(user_lang), <<>>)>>, <<>>, <<>>, FALSE)
        ELSE Res([ud EXCEPT !.audio_file_id = Join(audio.file_id), !.audio_source_format = source_format],
                 disk, <<Msg("reply", "audio_received", get_text(user_lang), keyboard)>>, <<>>, <<>>, FALSE)

\* video: [file_id].
handle_video(ud, disk, video, oc) ==
    LET user_lang == get_user_language(ud)
        selected_file_type == ud.selected_file_type
        target_format == ud.target_format
        keyboard == << <<"convert", "video", "mp3">>, BACK >>
    IN  IF Truthy(selected_file_type) /\ Truthy(target_format) /\ selected_file_type = "mp4"
        THEN upload_except(convert_file_now(ud, disk, "mp4", target_format, Join(video.file_id), oc), oc)
        ELSE Res([ud EXCEPT !.video_file_id = Join(video.file_id)], disk,
                 <<Msg("reply", "video_received", get_text(user_lang), keyboard)>>, <<>>, <<>>, FALSE)

---------------------------------------------------------------------------
(* The updates the transport delivers                                      *)

NoEvent == [type |-> "idle"]

\* Extensions of the uploaded documents' file names, as the user wrote them.
DocExtNames == {"pdf", "PDF", "png", "mp4", "zip"}

\* File names: with an extension, without one, and none at all.
FileNames == {<<"file", ".", x>> : x \in DocExtNames} \cup {<<"file">>, <<>>}

\* The file ids of photos, audio and video: they are kept in the session and never
\* travel in callback data, so one id stands for all of them.
MediaFileIds == {<<"f1">>}

\* Audio and voice messages: the format of the file and the mime type sent with it.
AudioKinds ==
    {[actual |-> "mp3", mime_type |-> <<"audio", "/", "mpeg">>],
     [actual |-> "wav", mime_type |-> <<"audio", "/", "x-", "wav">>],
     [actual |-> "m4a", mime_type |-> <<"audio", "/", "mp4">>]}

VideoKinds == {"mp4"}

\* The type_* buttons of handle_menu's keyboards that the user presses.
TypeNames == {"pdf", "png", "wav", "mp4"}

\* Every button a keyboard of this bot can carry, and lang_de: callback data
\* comes from the client, and "de" is a code LANGUAGES does not hold.
Buttons ==
    {<<"lang", "uz">>, <<"lang", "en">>, <<"lang", "de">>} \cup Range(MainMenuKeyboard) \cup {BACK}
    \cup {<<"type", n>> : n \in TypeNames}
    \cup UNION {{<<"target", t>> : t \in Range(get_supported_conversions(Dot(n)))} : n \in TypeNames}
    \cup {<<"convert", "photo", "png">>, <<"convert", "photo", "webp">>, <<"convert", "video", "mp3">>}
    \cup UNION {{<<"convert", "audio", t>> : t \in Range(get_supported_conversions(Dot(n)))} :
                   n \in {"mp3", "wav", "ogg"}}
    \cup UNION {UNION {{<<"convert", LowerStr(x), t>> \o f : t \in Range(get_supported_conversions(Dot(x)))} :
                   f \in FileIds} : x \in DocExtNames}

\* Whether the routine of a pair can return an output path.
CanSucceed(source_format, target_format) ==
    /\ route(source_format, target_format) # "unsupported"
    /\ route(source_format, target_format) = "_convert_video_to_audio" => MOVIEPY_AVAILABLE

\* What the environment can do to one request for (source, target); depth is the
\* number of nested except blocks that send an error message.
Outcomes(source_format, target_format, depth) ==
    LET fps == FailPointsOf(source_format, target_format)
        good == IF CanSucceed(source_format, target_format) THEN {"none"} ELSE {}
    IN  {[t |-> "none", fp |-> f, e |-> 0] : f \in fps}
        \cup {[t |-> x, fp |-> "none", e |-> n] : x \in {"converting_msg", "get_file", "download"}, n \in 0..depth}
        \cup {[t |-> "failed_msg", fp |-> f, e |-> n] : f \in fps \ good, n \in 0..depth}
        \cup {[t |-> x, fp |-> f, e |-> n] : x \in {"send_document", "completed_msg"}, f \in good, n \in 0..depth}

\* The outcomes to draw for a handler run: those of its request when it makes one.
OutcomesFor(r0, depth) ==
    IF r0.req = <<>> THEN {NoFail}
    ELSE Outcomes(r0.req[1].source, r0.req[1].target, depth)

---------------------------------------------------------------------------
(* The state machine                                                       *)

\* The event loop's thread runs no handler.
LoopFree == [task |-> "none"]

Init ==
    /\ MOVIEPY_AVAILABLE \in BOOLEAN
    /\ user_data = [u \in Users |-> EmptySession]
    /\ temp = {}
    /\ ev = NoEvent
    /\ msgs = <<>>
    /\ request = <<>>
    /\ calls = <<>>
    /\ sent = <<>>
    /\ raised = FALSE
    /\ nChanges = 0
    /\ queue = <<>>
    /\ loop = LoopFree
    /\ screen = {}

\* An application that keeps one session for all users; C15 distinguishes it from
\* Handle.
Handle_shared(u, e, res) ==
    /\ ev.type = "idle"
    /\ nChanges < MaxChanges
    /\ user_data' = [v \in Users |-> res.ud]
    /\ temp' = res.disk
    /\ ev' = e
    /\ msgs' = res.msgs
    /\ request' = res.req
    /\ calls' = res.calls
    /\ sent' = res.sent
    /\ raised' = res.raised
    /\ nChanges' = IF res.ud = user_data[u] /\ res.disk = temp THEN nChanges ELSE nChanges + 1
    /\ UNCHANGED <<MOVIEPY_AVAILABLE, queue, loop, screen>>

\* The application runs the handler of update e for user u to its end.
Handle(u, e, res) ==
    /\ ev.type = "idle"
    /\ nChanges < MaxChanges
    /\ user_data' = [user_data EXCEPT ![u] = res.ud]
    /\ temp' = res.disk
    /\ ev' = e
    /\ msgs' = res.msgs
    /\ request' = res.req
    /\ calls' = res.calls
    /\ sent' = res.sent
    /\ raised' = res.raised
    /\ nChanges' = IF res.ud = user_data[u] /\ res.disk = temp THEN nChanges ELSE nChanges + 1
    /\ UNCHANGED <<MOVIEPY_AVAILABLE, queue, loop, screen>>

StartCommand(u) == Handle(u, [type |-> "start", user |-> u], start(user_data[u], temp))

HelpCommand(u) == Handle(u, [type |-> "help", user |-> u], help_command(user_data[u], temp))

LanguageCommand(u) == Handle(u, [type |-> "language", user |-> u], language_command(user_data[u], temp))

DocumentUpload(u) ==
    /\ ev.type = "idle"
    /\ nChanges < MaxChanges
    /\ \E f \in FileIds, n \in FileNames :
        LET document == [file_id |-> f, file_name |-> n] IN
        \E oc \in OutcomesFor(handle_document(user_data[u], temp, document, NoFail), 2) :
            Handle(u, [type |-> "document", user |-> u, file_id |-> f, file_name |-> n, oc |-> oc],
                   handle_document(user_data[u], temp, document, oc))

PhotoUpload(u) ==
    /\ ev.type = "idle"
    /\ nChanges < MaxChanges
    /\ \E f \in MediaFileIds :
        LET photo == [file_id |-> f] IN
        \E oc \in OutcomesFor(handle_photo(user_data[u], temp, photo, NoFail), 2) :
            Handle(u, [type |-> "photo", user |-> u, file_id |-> f, actual |-> "jpg", oc |-> oc],
                   handle_photo(user_data[u], temp, photo, oc))

AudioUpload(u) ==
    /\ ev.type = "idle"
    /\ nChanges < MaxChanges
    /\ \E f \in MediaFileIds, k \in AudioKinds :
        LET audio == [file_id |-> f, mime_type |-> k.mime_type] IN
        \E oc \in OutcomesFor(handle_audio(user_data[u], temp, audio, NoFail), 2) :
            Handle(u, [type |-> "audio", user |-> u, file_id |-> f, mime_type |-> k.mime_type,
                       actual |-> k.actual, oc |-> oc],
                   handle_audio(user_data[u], temp, audio, oc))

VideoUpload(u) ==
    /\ ev.type = "idle"
    /\ nChanges < MaxChanges
    /\ \E f \in MediaFileIds, k \in VideoKinds :
        LET video == [file_id |-> f] IN
        \E oc \in OutcomesFor(handle_video(user_data[u], temp, video, NoFail), 2) :
            Handle(u, [type |-> "video", user |-> u, file_id |-> f, actual |-> k, oc |-> oc],
                   handle_video(user_data[u], temp, video, oc))

ButtonPress(u) ==
    /\ ev.type = "idle"
    /\ nChanges < MaxChanges
    /\ \E data \in Buttons :
        \E oc \in OutcomesFor(handle_conversion(user_data[u], temp, data, NoFail), 1) :
            Handle(u, [type |-> "callback", user |-> u, data |-> data, oc |-> oc],
                   handle_conversion(user_data[u], temp, data, oc))

\* The handler has returned; the application waits for the next update.
Return ==
    /\ ev.type # "idle"
    /\ ev' = NoEvent
    /\ msgs' = <<>>
    /\ request' = <<>>
    /\ calls' = <<>>
    /\ sent' = <<>>
    /\ raised' = FALSE
    /\ UNCHANGED <<MOVIEPY_AVAILABLE, user_data, temp, nChanges, queue, loop, screen>>

Next ==
    \/ \E u \in Actors : StartCommand(u)
    \/ \E u \in Actors : HelpCommand(u)
    \/ \E u \in Actors : LanguageCommand(u)
    \/ \E u \in Actors : DocumentUpload(u)
    \/ \E u \in Actors : PhotoUpload(u)
    \/ \E u \in Actors : AudioUpload(u)
    \/ \E u \in Actors : VideoUpload(u)
    \/ \E u \in Actors : ButtonPress(u)
    \/ Return

Spec == Init /\ [][Next]_vars

\* The same application with every user sending updates; the handlers of one
\* user's updates run between those of another's. MaxSharedChanges bounds the
\* handler runs that change a session or the scratch directory.
MaxSharedChanges == 2

NextUsers ==
    \/ \E u \in Users : nChanges < MaxSharedChanges /\ StartCommand(u)
    \/ \E u \in Users : nChanges < MaxSharedChanges /\ HelpCommand(u)
    \/ \E u \in Users : nChanges < MaxSharedChanges /\ LanguageCommand(u)
    \/ \E u \in Users : nChanges < MaxSharedChanges /\ DocumentUpload(u)
    \/ \E u \in Users : nChanges < MaxSharedChanges /\ PhotoUpload(u)
    \/ \E u \in Users : nChanges < MaxSharedChanges /\ AudioUpload(u)
    \/ \E u \in Users : nChanges < MaxSharedChanges /\ VideoUpload(u)
    \/ \E u \in Users : nChanges < MaxSharedChanges /\ ButtonPress(u)
    \/ Return

SpecUsers == Init /\ [][NextUsers]_vars

---------------------------------------------------------------------------
(* The dispatcher alone: one call of convert_file on inputs drawn from the  *)
(* format names, in both configurations of MOVIEPY_AVAILABLE.               *)

FormatNames == BaseSourceNames \cup {"mp4", "zip"}

ConvertCall ==
    /\ ev.type = "idle"
    /\ nChanges = 0
    /\ \E s \in FormatNames, t \in FormatNames, f \in FileIds :
        \E fp \in FailPointsOf(s, t) :
            LET input_path == InputPath(Join(f), s)
                c == convert_file(temp \cup {input_path}, input_path, s, t, fp)
            IN  /\ ev' = [type |-> "convert_file", source |-> s, target |-> t, file_id |-> Join(f), fp |-> fp]
                /\ request' = <<[source |-> s, target |-> t, file_id |-> Join(f)]>>
                /\ calls' = <<c>>
                /\ temp' = c.disk
                /\ nChanges' = 1
                /\ UNCHANGED <<MOVIEPY_AVAILABLE, user_data, msgs, sent, raised, queue, loop, screen>>

\* A second call of convert_file with the input path and the pair of the first.
ConvertAgain ==
    /\ ev.type = "convert_file"
    /\ nChanges = 1
    /\ \E fp2 \in FailPointsOf(ev.source, ev.target) :
        LET c == convert_file(temp, calls[1].input, ev.source, ev.target, fp2)
        IN  /\ ev' = [type |-> "convert_again", source |-> ev.source, target |-> ev.target,
                      file_id |-> ev.file_id, fp |-> ev.fp, fp2 |-> fp2]
            /\ calls' = Append(calls, c)
            /\ temp' = c.disk
            /\ nChanges' = 2
            /\ UNCHANGED <<MOVIEPY_AVAILABLE, user_data, msgs, request, sent, raised, queue, loop, screen>>

\* The extensions get_supported_conversions is asked about: registered and
\* unregistered names in several letter cases, with and without the leading dot,
\* and the empty string.
Extensions ==
    {Dot(n) : n \in FormatNames \cup {"PDF", "Docx", "PNG", "JPG", "Mp4"}}
    \cup {<<"pdf">>, <<"PNG">>, <<>>}

\* One call of get_supported_conversions.
SupportedLookup ==
    /\ ev.type = "idle"
    /\ nChanges = 0
    /\ \E x \in Extensions :
        ev' = [type |-> "get_supported_conversions", file_extension |-> x,
               result |-> get_supported_conversions(x)]
    /\ nChanges' = 1
    /\ UNCHANGED <<MOVIEPY_AVAILABLE, user_data, temp, msgs, request, calls, sent, raised, queue, loop, screen>>

\* One run of _convert_image's pixel handling on an opened image.
ImageCall ==
    /\ ev.type = "idle"
    /\ nChanges = 0
    /\ \E img \in Images, t \in {"jpg", "png", "webp"} :
        ev' = [type |-> "_convert_image", img |-> img, target |-> t, saved |-> image_to_save(img, t)]
    /\ nChanges' = 1
    /\ UNCHANGED <<MOVIEPY_AVAILABLE, user_data, temp, msgs, request, calls, sent, raised, queue, loop, screen>>

NextDispatch == ConvertCall \/ ConvertAgain \/ SupportedLookup \/ ImageCall

SpecDispatch == Init /\ [][NextDispatch]_vars

---------------------------------------------------------------------------
(* The event loop: one thread runs the updater and the handlers. A handler   *)
(* gives the thread up at each await of a transport call; convert_file and   *)
(* its routines hold no await, so the thread stays in them until the library *)
(* returns. The application is built without concurrent updates: the next    *)
(* update is dispatched when the handler of the one before has ended.        *)

\* The updates fetched in one run of the model.
MaxUpdates == 4

\* The awaits of a handler, in order: of start, and of handle_conversion on a
\* convert button; "convert_file" is the call of the dispatcher.
StartSteps == <<"reply_text">>

ConvertSteps ==
    <<"answer", "converting_msg", "get_file", "download", "convert_file",
      "send_document", "completed_msg">>

StepsOf(kind) == IF kind = "convert" THEN ConvertSteps ELSE StartSteps

\* The thread is inside convert_file.
Converting == loop.task = "handler" /\ StepsOf(loop.kind)[loop.pc] = "convert_file"

\* The updater, a task of the same loop, fetches an update of user u.
Fetch(u, kind) ==
    /\ ~Converting
    /\ nChanges < MaxUpdates
    /\ queue' = Append(queue, [user |-> u, kind |-> kind])
    /\ nChanges' = nChanges + 1
    /\ UNCHANGED <<MOVIEPY_AVAILABLE, user_data, temp, ev, msgs, request, calls, sent, raised, loop, screen>>

\* The application takes the next update and starts its handler.
Dispatch ==
    /\ loop = LoopFree
    /\ queue # <<>>
    /\ loop' = [task |-> "handler", user |-> Head(queue).user, kind |-> Head(queue).kind, pc |-> 1]
    /\ queue' = Tail(queue)
    /\ UNCHANGED <<MOVIEPY_AVAILABLE, user_data, temp, ev, msgs, request, calls, sent, raised, nChanges, screen>>

\* The step the running handler is at has ended: the handler goes on to its next
\* step, or ends after its last.
Advance ==
    loop' = IF loop.pc < Len(StepsOf(loop.kind)) THEN [loop EXCEPT !.pc = @ + 1] ELSE LoopFree

\* An awaited transport call of the running handler completes.
AwaitDone ==
    /\ loop.task = "handler"
    /\ ~Converting
    /\ Advance
    /\ UNCHANGED <<MOVIEPY_AVAILABLE, user_data, temp, ev, msgs, request, calls, sent, raised, nChanges, queue, screen>>

\* The conversion library returns to convert_file.
ConvertReturns ==
    /\ Converting
    /\ Advance
    /\ UNCHANGED <<MOVIEPY_AVAILABLE, user_data, temp, ev, msgs, request, calls, sent, raised, nChanges, queue, screen>>

NextLoop ==
    \/ \E u \in Users, kind \in {"start", "convert"} : Fetch(u, kind)
    \/ Dispatch
    \/ AwaitDone
    \/ ConvertReturns

SpecLoop == Init /\ [][NextLoop]_vars

---------------------------------------------------------------------------
(* Vocabulary of the properties                                            *)

\* conversions_for(extension) of the specification: the capability table's entry.
conversions_for(name) == get_supported_conversions(Dot(name))

IsUpload(e) == e.type \in {"document", "photo", "audio", "video"}

\* The format an uploaded file really has: a document's own extension, jpg for a
\* photo, the audio's or video's container.
ActualFormat(e) ==
    IF e.type = "document"
    THEN LET x == Lower(SplitExt(IF e.file_name = <<>> THEN <<"unknown">> ELSE e.file_name))
         IN  IF x = <<>> THEN "" ELSE x[2]
    ELSE e.actual

\* The targets of the convert buttons a handler run offered, in order.
ConvertButtons(m) == SelectSeq(m.buttons, LAMBDA b : b[1] = "convert")

Offered(ms) ==
    IF ms = <<>> THEN <<>>
    ELSE LET bs == ConvertButtons(ms[Len(ms)]) IN [i \in 1..Len(bs) |-> bs[i][3]]

\* The run delivered the converted file and reported completion.
Completed == request # <<>> /\ sent # <<>> /\ msgs # <<>> /\ msgs[Len(msgs)].key = "conversion_completed"

\* The run's conversion attempt failed: the download raised, the dispatcher
\* returned the failure signal, or the delivery raised.
Failed ==
    /\ request # <<>>
    /\ \/ calls = <<>> /\ ev.oc.t \in {"get_file", "download"}
       \/ calls # <<>> /\ calls[1].ret = NoPath
       \/ calls # <<>> /\ calls[1].ret # NoPath /\ ev.oc.t = "send_document"

RequestInput == InputPath(request[1].file_id, request[1].source)

RequestOutput == OutputPath(RequestInput, request[1].target)

\* The session fields a conversion request is made of.
NoSelection(ud) == ud.selected_file_type = None /\ ud.target_format = None

NoFileReference(ud) ==
    /\ ud.document_file_id = None /\ ud.document_file_name = None
    /\ ud.photo_file_id = None /\ ud.audio_file_id = None /\ ud.video_file_id = None

---------------------------------------------------------------------------
(* Media messages and their keyboards                                      *)

\* The file ids of the photos, audio files and videos a user sends one after
\* another.
MediaIds == {<<"f1">>, <<"f3">>}

\* A handler run that also leaves the chat showing the messages in shown.
HandleOnScreen(u, e, res, shown) ==
    /\ ev.type = "idle"
    /\ nChanges < MaxChanges
    /\ user_data' = [user_data EXCEPT ![u] = res.ud]
    /\ temp' = res.disk
    /\ ev' = e
    /\ msgs' = res.msgs
    /\ request' = res.req
    /\ calls' = res.calls
    /\ sent' = res.sent
    /\ raised' = res.raised
    /\ nChanges' = IF res.ud = user_data[u] /\ res.disk = temp THEN nChanges ELSE nChanges + 1
    /\ screen' = shown
    /\ UNCHANGED <<MOVIEPY_AVAILABLE, queue, loop>>

\* The message a media upload was answered with: the uploaded file, its format
\* and the convert buttons under it.
MediaMessage(e, res) ==
    [kind |-> e.type, file_id |-> e.file_id, actual |-> e.actual,
     buttons |-> ConvertButtons(res.msgs[Len(res.msgs)])]

\* The upload's reply stays in the chat when it carries convert buttons.
Shown(e, res) ==
    IF res.msgs # <<>> /\ ConvertButtons(res.msgs[Len(res.msgs)]) # <<>>
    THEN screen \cup {MediaMessage(e, res)} ELSE screen

MediaPhoto(u) ==
    \E f \in MediaIds :
        LET e == [type |-> "photo", user |-> u, file_id |-> f, actual |-> "jpg", oc |-> NoFail]
            res == handle_photo(user_data[u], temp, [file_id |-> f], NoFail)
        IN  HandleOnScreen(u, e, res, Shown(e, res))

MediaAudio(u) ==
    \E f \in MediaIds, k \in AudioKinds :
        LET e == [type |-> "audio", user |-> u, file_id |-> f, mime_type |-> k.mime_type,
                  actual |-> k.actual, oc |-> NoFail]
            res == handle_audio(user_data[u], temp, [file_id |-> f, mime_type |-> k.mime_type], NoFail)
        IN  HandleOnScreen(u, e, res, Shown(e, res))

MediaVideo(u) ==
    \E f \in MediaIds :
        LET e == [type |-> "video", user |-> u, file_id |-> f, actual |-> "mp4", oc |-> NoFail]
            res == handle_video(user_data[u], temp, [file_id |-> f], NoFail)
        IN  HandleOnScreen(u, e, res, Shown(e, res))

\* The user presses a convert button under one of the media messages in the chat.
MediaPress(u) ==
    /\ ev.type = "idle"
    /\ \E m \in screen :
        \E i \in 1..Len(m.buttons) :
            \E oc \in OutcomesFor(handle_conversion(user_data[u], temp, m.buttons[i], NoFail), 1) :
                HandleOnScreen(u, [type |-> "callback", user |-> u, data |-> m.buttons[i], oc |-> oc,
                                   message |-> m],
                               handle_conversion(user_data[u], temp, m.buttons[i], oc), screen)

NextMedia ==
    \/ \E u \in Actors : MediaPhoto(u)
    \/ \E u \in Actors : MediaAudio(u)
    \/ \E u \in Actors : MediaVideo(u)
    \/ \E u \in Actors : MediaPress(u)
    \/ Return

SpecMedia == Init /\ [][NextMedia]_vars

---------------------------------------------------------------------------
(* Claims                                                                  *)

\* C1: once a language is stored in a user's session, a /start of that user renders
\* the main menu and not the language-selection prompt.  (start leaves the session
\* as it was, so the stored language is the one the handler read.)
C1_StartShowsMainMenu ==
    (ev.type = "start" /\ user_data[ev.user].language # None)
        => (Len(msgs) = 1 /\ msgs[1].key = "welcome" /\ msgs[1].buttons = MainMenuKeyboard)

\* C2: a conversion that completes (through convert_file_now or handle_conversion)
\* leaves the user's language as it was before; only the selected source type, the
\* target format and the file references are removed.
C2_LanguageSurvivesConversion ==
    [][\A u \in Users :
        (ev'.type # "idle" /\ ev'.user = u /\ Completed')
            => /\ user_data'[u].language = user_data[u].language
               /\ NoSelection(user_data'[u]) /\ NoFileReference(user_data'[u])]_vars

\* C3: when a conversion attempt fails (the dispatcher returns the failure signal, or
\* the download or the delivery raises), the session holds no selected source type,
\* no target format and no file reference when the handler returns.
C3_FailureClearsSession ==
    (ev.type # "idle" /\ ev.type # "convert_file" /\ Failed /\ ~raised)
        => (NoSelection(user_data[ev.user]) /\ NoFileReference(user_data[ev.user]))

\* C4: on every failure path of a conversion request, neither the request's input
\* temp file nor an output temp file of the request exists in temp/ when the
\* handler returns.
C4_FailureLeavesNoTempFile ==
    (ev.type # "idle" /\ ev.type # "convert_file" /\ Failed /\ ~raised)
        => (RequestInput \notin temp /\ RequestOutput \notin temp /\ TempDocx(RequestOutput) \notin temp)

C6_MenuThenUploadConverts ==
    [][\A u \in Users :
        /\ (ev'.type = "callback" /\ ev'.user = u /\ ev'.data = <<"menu", "documents">>)
              => user_data'[u] = user_data[u]
        /\ (ev'.type = "callback" /\ ev'.user = u /\ ev'.data = <<"type", "pdf">>)
              => user_data'[u].selected_file_type = "pdf"
        /\ (ev'.type = "callback" /\ ev'.user = u /\ ev'.data = <<"target", "docx">>
                /\ user_data[u].selected_file_type = "pdf")
              => (user_data'[u].selected_file_type = "pdf" /\ user_data'[u].target_format = "docx")
        /\ (ev'.type = "document" /\ ev'.user = u /\ ActualFormat(ev') = "pdf"
                /\ user_data[u].selected_file_type = "pdf" /\ user_data[u].target_format = "docx")
              => /\ request' = <<[source |-> "pdf", target |-> "docx", file_id |-> Join(ev'.file_id)]>>
                 /\ ev'.oc = NoFail =>
                      /\ Len(calls') = 1 /\ calls'[1].route = "_convert_pdf"
                      /\ calls'[1].source = "pdf" /\ calls'[1].target = "docx"
                      /\ Len(sent') = 1 /\ sent'[1].filename = "converted.docx"
                      /\ sent'[1].path = calls'[1].ret
                      /\ NoSelection(user_data'[u])]_vars

\* C6 witness: a .pdf upload was converted to converted.docx in the run that received it.
C6_Witness ==
    /\ ev.type = "document" /\ ActualFormat(ev) = "pdf" /\ ev.oc = NoFail
    /\ request = <<[source |-> "pdf", target |-> "docx", file_id |-> Join(ev.file_id)]>>
    /\ Len(sent) = 1 /\ sent[1].filename = "converted.docx"
    /\ NoSelection(user_data[ev.user])

\* C7: an upload from a user with no stored selection offers exactly the targets
\* conversions_for lists for the file's own format, and starts no conversion.
C7_AdHocOffersTableTargets ==
    [][\A u \in Users :
        (IsUpload(ev') /\ ev'.user = u /\ NoSelection(user_data[u]))
            => (Offered(msgs') = conversions_for(ActualFormat(ev')) /\ request' = <<>> /\ calls' = <<>>)]_vars

\* C8: an upload whose format differs from the stored source type starts no
\* automatic conversion with the stored (source, target) pair.
C8_MismatchStartsNoConversion ==
    [][\A u \in Users :
        (IsUpload(ev') /\ ev'.user = u /\ Truthy(user_data[u].selected_file_type)
            /\ ActualFormat(ev') # user_data[u].selected_file_type)
            => ~(/\ request' # <<>>
                 /\ request'[1].source = user_data[u].selected_file_type
                 /\ request'[1].target = user_data[u].target_format)]_vars

\* C9: an upload starts a conversion only when a source type and a target type are
\* stored and the file's format equals the stored source type, and the request is
\* then (stored source, stored target, that file).
C9_AutoConversionOnlyOnMatch ==
    [][\A u \in Users :
        (IsUpload(ev') /\ ev'.user = u /\ request' # <<>>)
            => /\ Truthy(user_data[u].selected_file_type) /\ Truthy(user_data[u].target_format)
               /\ ActualFormat(ev') = user_data[u].selected_file_type
               /\ request' = <<[source |-> user_data[u].selected_file_type,
                               target |-> user_data[u].target_format,
                               file_id |-> Join(ev'.file_id)]>>]_vars

\* C10: every (source, target) pair of the capability table is routed by convert_file
\* to a conversion routine, never to the unsupported branch, whether or not video
\* support is available.
C10_TablePairsAreRouted ==
    (ev.type = "convert_file" /\ Dot(ev.source) \in DOMAIN CONVERSION_MATRIX
        /\ ev.target \in Range(CONVERSION_MATRIX[Dot(ev.source)]))
        => (calls[1].route # "unsupported"
            /\ calls[1].route \in {"_convert_pdf", "_convert_docx", "_convert_txt_to_docx",
                                   "_convert_image", "_convert_audio", "_convert_video_to_audio"})

\* C10 witness: the pair the table holds only when video support is available was dispatched.
C10_Witness ==
    /\ ev.type = "convert_file" /\ MOVIEPY_AVAILABLE
    /\ ev.source = "mp4" /\ ev.target \in Range(CONVERSION_MATRIX[Dot("mp4")])
    /\ calls[1].route = "_convert_video_to_audio"

\* C11: get_supported_conversions returns the empty list exactly when its
\* argument, lower-cased, is not a key of the capability table, and for a key
\* written in any letter case it returns that key's target list.
C11_LookupIsCaseInsensitive ==
    ev.type = "get_supported_conversions" =>
        LET k == Lower(ev.file_extension) IN
        /\ ev.result = <<>> <=> k \notin MatrixKeys(MOVIEPY_AVAILABLE)
        /\ k \in MatrixKeys(MOVIEPY_AVAILABLE) =>
              ev.result = (IF k = Dot("mp4") THEN <<"mp3">> ELSE base_matrix(k[2]))

\* C11 witness: a registered extension written in upper case was looked up and its
\* target list returned.
C11_Witness ==
    /\ ev.type = "get_supported_conversions"
    /\ ev.file_extension = Dot("PDF")
    /\ ev.result = <<"docx", "txt">>

\* C12: two calls of convert_file with the same valid input path and the same
\* supported pair both return an output path, and the two output paths differ.
C12_RepeatedCallsUseDistinctOutputs ==
    (ev.type = "convert_again" /\ ev.fp = "none" /\ ev.fp2 = "none"
        /\ CanSucceed(ev.source, ev.target))
        => /\ calls[1].ret # NoPath
           /\ calls[2].ret # NoPath
           /\ calls[1].ret # calls[2].ret

\* C16: for a pair of the capability table, when the conversion routine fails at
\* any point, convert_file returns None and the output file of the call is not on
\* disk afterwards.
C16_FailedCallLeavesNoOutput ==
    (ev.type = "convert_file" /\ ev.fp # "none"
        /\ ev.target \in Range(conversions_for(ev.source)))
        => /\ calls[1].ret = NoPath
           /\ OutputPath(calls[1].input, ev.target) \notin temp

\* C17: when _convert_pdf returns from a pdf -> txt call, succeeded or failed at any
\* stage, the intermediate docx file is not on disk.
C17_IntermediateDocxIsRemoved ==
    (ev.type = "convert_file" /\ ev.source = "pdf" /\ ev.target = "txt")
        => TempDocx(OutputPath(calls[1].input, "txt")) \notin temp

\* C18: a request to convert an mp4 without an audio track to mp3 gets None from
\* convert_file, delivers nothing, puts no output file of the request on disk (a
\* file that has no audio track has produced no mp3 before, so none precedes the
\* request), and, when the message can be sent, ends with conversion_failed.
C18_NoAudioTrackFails ==
    [][((IsUpload(ev') \/ ev'.type = "callback") /\ request' # <<>>
            /\ request'[1].source = "mp4" /\ request'[1].target = "mp3"
            /\ ev'.oc.fp = "no_audio" /\ RequestOutput' \notin temp)
        => /\ Len(calls') = 1 /\ calls'[1].route = "_convert_video_to_audio"
           /\ calls'[1].ret = NoPath
           /\ sent' = <<>>
           /\ RequestOutput' \notin temp'
           /\ ev'.oc.t = "none" => msgs'[Len(msgs')].key = "conversion_failed"]_vars

\* C18 witness: the Convert to MP3 button of a video without an audio track was
\* pressed and the run ended with the conversion_failed message.
C18_Witness ==
    /\ ev.type = "callback" /\ ev.data = <<"convert", "video", "mp3">>
    /\ ev.oc.fp = "no_audio" /\ ev.oc.t = "none"
    /\ calls # <<>> /\ calls[1].ret = NoPath
    /\ msgs[Len(msgs)].key = "conversion_failed"
    /\ RequestOutput \notin temp

\* The run's last message to the user reports a failure.
FailureReported ==
    msgs # <<>> /\ msgs[Len(msgs)].key \in {"conversion_failed", "conversion_error", "error_occurred"}

\* C19: when the converted file was produced and sending it raised, the handler
\* returns with a failure message as the user's last message and with neither the
\* input nor the output temp file of the request on disk.
C19_DeliveryFailureCleansUp ==
    ((IsUpload(ev) \/ ev.type = "callback") /\ request # <<>> /\ ~raised
        /\ calls # <<>> /\ calls[1].ret # NoPath /\ ev.oc.t = "send_document")
        => /\ FailureReported
           /\ RequestInput \notin temp
           /\ RequestOutput \notin temp

\* C20: when the converted file was sent, the handler returns with neither the
\* input nor the output temp file of the request on disk.
C20_DeliveryCleansUp ==
    ((IsUpload(ev) \/ ev.type = "callback") /\ request # <<>> /\ ~raised /\ sent # <<>>)
        => /\ RequestInput \notin temp
           /\ RequestOutput \notin temp

C14_OtherUsersProceed ==
    (Converting /\ queue # <<>> /\ Head(queue).user # loop.user) => ENABLED Dispatch

\* The update was handled by one of the bot's handlers.
Handled == IsUpload(ev) \/ ev.type \in {"callback", "start", "help", "language"}

\* C21: whatever external call fails while an update is handled, no exception
\* leaves the handler.
C21_NoExceptionEscapes ==
    Handled => ~raised

\* C22: a document is sent only when the conversion routine did not fail and
\* convert_file returned a path that exists, and it is the file at that path; when
\* the conversion failed nothing is sent and, when a message can be sent, the
\* user's last message reports the failure.
C22_OnlyConvertedFilesAreSent ==
    (Handled /\ request # <<>>)
        => /\ sent # <<>> =>
                /\ Len(sent) = 1 /\ Len(calls) = 1
                /\ ev.oc.fp = "none"
                /\ calls[1].ret # NoPath /\ calls[1].ret \in calls[1].disk
                /\ sent[1].path = calls[1].ret
           /\ (calls # <<>> /\ (ev.oc.fp # "none" \/ calls[1].ret = NoPath)) =>
                /\ sent = <<>>
                /\ ev.oc.e = 0 => FailureReported

\* C22 witness: a conversion failed part-way through writing its output, nothing
\* was sent and the user was told so.
C22_Witness ==
    /\ Handled /\ request # <<>> /\ calls # <<>>
    /\ ev.oc.fp = "partial_write" /\ RequestOutput \in temp
    /\ sent = <<>> /\ FailureReported

\* C25: one handler run calls convert_file at most once, also when the call fails.
C25_SingleAttempt ==
    Handled => Len(calls) <= 1

\* C25 witness: a request whose only convert_file call failed.
C25_Witness ==
    /\ Handled /\ request # <<>>
    /\ Len(calls) = 1 /\ calls[1].ret = NoPath /\ ev.oc.fp = "before_write"
    /\ sent = <<>>

\* C23: a press of the back button edits the message into the main menu, in the
\* session's language, and changes no field of any session.
C23_BackKeepsSession ==
    [][(ev'.type = "callback" /\ ev'.data = BACK)
          => /\ user_data' = user_data
             /\ msgs' = <<Msg("edit", "welcome", get_text(get_user_language(user_data[ev'.user])),
                              MainMenuKeyboard)>>]_vars

\* C23 witness: back was pressed with a source type and a target stored, and the
\* main menu is on screen.
C23_Witness ==
    /\ ev.type = "callback" /\ ev.data = BACK
    /\ user_data[ev.user].selected_file_type = "pdf"
    /\ user_data[ev.user].target_format = "docx"
    /\ Len(msgs) = 1 /\ msgs[1].key = "welcome" /\ msgs[1].buttons = MainMenuKeyboard

\* C24: /start from a session with no language answers with the language prompt
\* alone, which carries exactly the three language buttons; a press of English
\* leaves "en" stored and the main menu rendered in English by the same handler
\* run.
C24_FirstStartThenEnglish ==
    /\ (ev.type = "start" /\ user_data[ev.user].language = None)
          => /\ msgs = <<Msg("reply", "select_language", "en", LanguageKeyboard)>>
             /\ Len(msgs[1].buttons) = 3
             /\ \A i \in 1..3 : msgs[1].buttons[i][1] = "lang"
    /\ (ev.type = "callback" /\ ev.data = <<"lang", "en">>)
          => /\ user_data[ev.user].language = "en"
             /\ msgs = <<Msg("edit", "welcome", "en", MainMenuKeyboard)>>

\* C24 witness: English was pressed and the main menu is shown in English.
C24_Witness ==
    /\ ev.type = "callback" /\ ev.data = <<"lang", "en">>
    /\ user_data[ev.user].language = "en"
    /\ Len(msgs) = 1 /\ msgs[1].key = "welcome" /\ msgs[1].lang = "en"

\* C28: after every step each session's language is unset or one of uz, en, ru,
\* and a press of a lang_ button whose code is none of the three leaves the
\* language as it was.
C28_LanguageStaysRegistered ==
    [][/\ \A u \in Users : user_data'[u].language \in {None} \cup {"uz", "en", "ru"}
       /\ (ev'.type = "callback" /\ StartsWith(ev'.data, "lang")
              /\ Join(Replace(ev'.data, "lang")) \notin {"uz", "en", "ru"})
             => user_data'[ev'.user].language = user_data[ev'.user].language]_vars

\* C28 witness: lang_de was pressed in a session whose language is uz.
C28_Witness ==
    /\ ev.type = "callback" /\ ev.data = <<"lang", "de">>
    /\ user_data[ev.user].language = "uz"

\* C27: a press of type_<s> stores s as the source type and renders one target
\* button per entry of conversions_for(s), in table order, then the back button.
C27_TypePressOffersTableTargets ==
    (ev.type = "callback" /\ StartsWith(ev.data, "type"))
        => LET s == Join(Replace(ev.data, "type"))
               targets == conversions_for(s)
           IN  /\ user_data[ev.user].selected_file_type = s
               /\ Len(msgs) = 1
               /\ msgs[1].buttons = [i \in 1..Len(targets) |-> <<"target", targets[i]>>] \o <<BACK>>

\* C29: whenever a session holds both a source type and a target, the target is
\* in conversions_for(source).
C29_StoredPairIsInTable ==
    \A u \in Users :
        (Truthy(user_data[u].selected_file_type) /\ Truthy(user_data[u].target_format))
            => user_data[u].target_format \in Range(conversions_for(user_data[u].selected_file_type))

\* C30: every convert_file call a handler makes has its target in
\* conversions_for(source).
C30_CallsAreInTable ==
    Handled => \A i \in DOMAIN calls : calls[i].target \in Range(conversions_for(calls[i].source))

\* C26: for target jpg an image of mode RGBA, LA or P is flattened onto white
\* with its own alpha as the mask: a transparent pixel comes out white, an opaque
\* one keeps its colour; for png and webp the image is saved as it was opened.
C26_TransparencyIsFlattenedOntoWhite ==
    (ev.type = "_convert_image")
        => /\ (ev.target = "jpg" /\ ev.img.mode \in {"RGBA", "LA", "P"})
                => /\ ev.saved.flattened /\ ev.saved.mask = "alpha"
                   /\ ev.saved.colour = IF ev.img.opaque THEN ev.img.colour ELSE "white"
           /\ (ev.target \in {"png", "webp"})
                => /\ ~ev.saved.flattened
                   /\ ev.saved.mode = ev.img.mode /\ ev.saved.colour = ev.img.colour
                   /\ ev.saved.opaque = ev.img.opaque

\* C31: a press of a convert button under a photo, audio or video message
\* requests the conversion of that message's file.
C31_ButtonConvertsItsOwnMessage ==
    (ev.type = "callback" /\ "message" \in DOMAIN ev /\ request # <<>>)
        => request[1].file_id = Join(ev.message.file_id)

\* C32: a press of a document button convert_<source>_<target>_<file_id>, for
\* every file id including those with '_' in them, forms the request for exactly
\* that source, target and file id, and leaves the selected source type as it was
\* (or removed with the rest of the session when the conversion completed).
C32_DocumentButtonRoundTrip ==
    [][\A x \in DocExtNames, f \in FileIds :
          \A t \in Range(conversions_for(LowerStr(x))) :
              (ev'.type = "callback" /\ ev'.data = <<"convert", LowerStr(x), t>> \o f)
                  => /\ request' = <<[source |-> LowerStr(x), target |-> t, file_id |-> Join(f)]>>
                     /\ user_data'[ev'.user].selected_file_type
                            \in {user_data[ev'.user].selected_file_type, None}]_vars

\* C33: the selected source type of every session is unset or a registered source
\* extension of the table in force, without its dot.
C33_SelectedTypeIsRegistered ==
    \A u \in Users :
        user_data[u].selected_file_type # None
            => Dot(user_data[u].selected_file_type) \in DOMAIN CONVERSION_MATRIX

\* C34: after every step a session that holds a target format holds a selected
\* source type as well, and a press of a target_ button in a session with no
\* source type changes no session and asks the user to start over.
C34_TargetImpliesSource ==
    [][/\ \A u \in Users :
            user_data'[u].target_format \notin {None, ""}
                => user_data'[u].selected_file_type \notin {None, ""}
       /\ (ev'.type = "callback" /\ StartsWith(ev'.data, "target")
              /\ user_data[ev'.user].selected_file_type \in {None, ""})
             => /\ user_data' = user_data
                /\ msgs' = <<Msg("edit", "please_start_over", "-", <<>>)>>]_vars

\* C34 witness: a target button was pressed in a session without a source type;
\* the user is asked to start over and no target is stored.
C34_Witness ==
    /\ ev.type = "callback" /\ StartsWith(ev.data, "target")
    /\ user_data[ev.user].selected_file_type = None
    /\ user_data[ev.user].target_format = None
    /\ Len(msgs) = 1 /\ msgs[1].key = "please_start_over"

====
